---- MODULE Spec2Model ----
(***************************************************************************)
(* A model of src/src/container.rs: the Pending / Running / Cleanup        *)
(* container representations, the conversions between them, and the        *)
(* asynchronous PendingContainer::start protocol with its classification   *)
(* of daemon failures and its hand-off to the WaitFor strategy.            *)
(*                                                                         *)
(* Texts (String values built by format!) are sequences of string pieces:  *)
(* format! concatenates its literal pieces and its arguments, and a text   *)
(* "contains" an argument when that argument is one of its pieces.         *)
(* A daemon payload is the sequence of its JSON lexemes.                   *)
(***************************************************************************)
EXTENDS Integers, Sequences, FiniteSets, TLC

\* Number of Cleanup Containers that may be derived from one container.
MaxCleanups == 1

\* The containers of one test run; their lifecycles run concurrently.
Containers == {1, 2}

(***************************************************************************)
(* State.                                                                  *)
(***************************************************************************)
VARIABLES
    pc,        \* where each container's lifecycle stands
    pend,      \* the Pending Container value (pc says who owns it)
    chan,      \* the daemon call of each start: idle, request sent, reply sent
    dstate,    \* the daemon's view of each container
    dlog,      \* the daemon commands issued for each container, in order
    waitfor,   \* start's local: the strategy taken out of the Pending Container
    invoked,   \* how often each container's strategy was invoked
    waitRet,   \* what the strategy's wait resolved to
    supplied,  \* the creator's own clone of the strategy it supplied
    args,      \* the arguments each Pending Container was constructed from
    results,   \* what start returned to its caller
    cleanup,   \* the Cleanup Containers derived, with their origin
    hist,      \* the events of each start, in order
    seen       \* what the accessors of the Running Container last returned

(***************************************************************************)
(* Construction inputs.  Each container gets its own name, identifier,     *)
(* handle and start policy; all texts differ, so that a mixed-up field is  *)
(* visible.                                                                *)
(***************************************************************************)
NameOf(c) == <<"web", "db", "cache", "queue">>[c]
IdOf(c) == <<"id_1f", "id_2e", "id_3d", "id_4c">>[c]
HandleOf(c) == <<"h_web", "h_db", "h_cache", "h_queue">>[c]
PolicyOf(c) == <<"Relaxed", "Strict", "Relaxed", "Strict">>[c]
\* One shared daemon connection; each container holds a clone of it.
Client == "docker"

\* std::net::Ipv4Addr::UNSPECIFIED and an address a strategy may have queried.
UNSPECIFIED == <<0, 0, 0, 0>>
QueriedIp == <<172, 17, 0, 2>>

(***************************************************************************)
(* serde_json: lexemes, values, from_str, Index<&str>, as_str.             *)
(***************************************************************************)
Punct(s) == [k |-> "punct", s |-> s]
StrTok(s) == [k |-> "str", s |-> s]
NumTok(s) == [k |-> "num", s |-> s]
LitTok(s) == [k |-> "lit", s |-> s]
BadTok(s) == [k |-> "bad", s |-> s]

JNull == [t |-> "null", s |-> "", kv |-> <<>>]
JStr(s) == [t |-> "str", s |-> s, kv |-> <<>>]
JNum(s) == [t |-> "num", s |-> s, kv |-> <<>>]
JObj(kv) == [t |-> "obj", s |-> "", kv |-> kv]

ParseOk(v) == [ok |-> TRUE, val |-> v, err |-> ""]
ParseErr(e) == [ok |-> FALSE, val |-> JNull, err |-> e]

IsScalarTok(t) == t.k \in {"str", "num", "lit"}
ScalarOf(t) ==
    IF t.k = "str" THEN JStr(t.s)
    ELSE IF t.k = "num" THEN JNum(t.s)
    ELSE JNull

\* The members of an object, read from position i (just after "{" or ",").
RECURSIVE ParseMembers(_, _, _)
ParseMembers(toks, i, acc) ==
    IF i + 2 > Len(toks) THEN ParseErr("EOF while parsing an object")
    ELSE IF toks[i].k # "str" THEN ParseErr("key must be a string")
    ELSE IF toks[i + 1] # Punct(":") THEN ParseErr("expected colon")
    ELSE IF ~IsScalarTok(toks[i + 2]) THEN ParseErr("expected value")
    ELSE LET kv == Append(acc, <<toks[i].s, ScalarOf(toks[i + 2])>>) IN
         IF i + 3 > Len(toks) THEN ParseErr("EOF while parsing an object")
         ELSE IF toks[i + 3] = Punct("}") THEN
              IF i + 3 = Len(toks) THEN ParseOk(JObj(kv))
              ELSE ParseErr("trailing characters")
         ELSE IF toks[i + 3] = Punct(",") THEN ParseMembers(toks, i + 4, kv)
         ELSE ParseErr("expected comma or closing brace")

\* serde_json::from_str: one value, then the end of the input.
FromStr(toks) ==
    IF toks = <<>> THEN ParseErr("EOF while parsing a value")
    ELSE IF IsScalarTok(toks[1]) THEN
         IF Len(toks) = 1 THEN ParseOk(ScalarOf(toks[1]))
         ELSE ParseErr("trailing characters")
    ELSE IF toks[1] = Punct("{") THEN
         IF Len(toks) >= 2 /\ toks[2] = Punct("}") THEN
              IF Len(toks) = 2 THEN ParseOk(JObj(<<>>))
              ELSE ParseErr("trailing characters")
         ELSE ParseMembers(toks, 2, <<>>)
    ELSE IF toks[1].k = "bad" THEN ParseErr("expected ident")
    ELSE ParseErr("expected value")

\* json[key]: the member of an object, Null for a missing key or a non-object.
\* A repeated key keeps its last value.
JsonIndex(v, key) ==
    LET hits == {i \in 1..Len(v.kv) : v.kv[i][1] = key} IN
    IF v.t = "obj" /\ hits # {}
    THEN v.kv[CHOOSE i \in hits : \A j \in hits : j <= i][2]
    ELSE JNull

\* Value::as_str: Some(s) for a string, None for anything else.
AsStr(v) == IF v.t = "str" THEN [some |-> TRUE, s |-> v.s] ELSE [some |-> FALSE, s |-> ""]

\* The text of a payload, lexeme by lexeme (strings in their quotes).
RECURSIVE Raw(_)
Raw(toks) ==
    IF toks = <<>> THEN <<>>
    ELSE <<IF toks[1].k = "str" THEN "\"" \o toks[1].s \o "\"" ELSE toks[1].s>>
         \o Raw(Tail(toks))

(***************************************************************************)
(* The daemon client (bollard): the failures of start_container and their  *)
(* Display, and the payloads a daemon may send with them.                  *)
(***************************************************************************)
NoPayload == <<>>
PayloadMessage(name) ==
    <<Punct("{"), StrTok("message"), Punct(":"),
      StrTok("No such container: " \o name), Punct("}")>>
PayloadCodeAndMessage(name) ==
    <<Punct("{"), StrTok("code"), Punct(":"), NumTok("404"), Punct(","),
      StrTok("message"), Punct(":"), StrTok("No such container: " \o name), Punct("}")>>
PayloadNoMessage == <<Punct("{"), StrTok("error"), Punct(":"), StrTok("gone"), Punct("}")>>
PayloadMessageNotString ==
    <<Punct("{"), StrTok("message"), Punct(":"), NumTok("404"), Punct("}")>>
PayloadNotJson == <<BadTok("not-json")>>
PayloadTruncated == <<Punct("{"), StrTok("message"), Punct(":")>>

NotFoundPayloads(name) ==
    {PayloadMessage(name), PayloadCodeAndMessage(name), PayloadNoMessage,
     PayloadMessageNotString, PayloadNotJson, PayloadTruncated}

NoError == [kind |-> "none", code |-> "", message |-> NoPayload]
NotFoundError(payload) ==
    [kind |-> "DockerResponseNotFoundError", code |-> "404", message |-> payload]
ServerError(code, payload) ==
    [kind |-> "DockerResponseServerError", code |-> code, message |-> payload]
IOError == [kind |-> "IOError", code |-> "", message |-> NoPayload]

\* The failures that are not "not found"; one of them carries a JSON payload
\* with a message field, as a not-found failure would.
OtherErrors(name) == {ServerError("500", PayloadMessage(name)), IOError}

\* impl Display for bollard's Error.
Display(e) ==
    IF e.kind = "DockerResponseNotFoundError"
    THEN <<"API responded with a 404 not found: ">> \o Raw(e.message)
    ELSE IF e.kind = "DockerResponseServerError"
    THEN <<"Docker responded with status code ", e.code, ": ">> \o Raw(e.message)
    ELSE <<"Failed to connect to the daemon">>

StartOk == [ok |-> TRUE, err |-> NoError]
StartFailed(e) == [ok |-> FALSE, err |-> e]

(***************************************************************************)
(* DockerTestError and the three container representations.                *)
(***************************************************************************)
NoText == <<>>
NoTestError == [kind |-> "none", text |-> NoText]
Startup(text) == [kind |-> "Startup", text |-> text]
Daemon(text) == [kind |-> "Daemon", text |-> text]
Processing(text) == [kind |-> "Processing", text |-> text]

\* Option<Box<dyn WaitFor>>
None == [some |-> FALSE, strat |-> ""]
Some(w) == [some |-> TRUE, strat |-> w]

\* The WaitFor implementations: the test's TestWaitFor, which converts at once
\* as NoWait does, and a strategy that polls the daemon and queries the address.
Strategies == {"TestWaitFor", "RunningWait"}

\* Texts and policies new may be given, some of which a normalisation (of
\* case, of surrounding blanks, of an empty text) would change.
NameInputs == {"web", " Web_01 "}
IdInputs == {"id_1f", "ID_1F"}
HandleInputs == {"h_web", ""}
StartPolicies == {"Relaxed", "Strict"}

\* A slip in the conversion: the text is trimmed and lower-cased.
to_string_Normalised(x) ==
    IF x = " Web_01 " THEN "web_01" ELSE IF x = "ID_1F" THEN "id_1f" ELSE x

\* T::to_string for the String and &str arguments of new: the same text.
to_string(x) == x

\* PendingContainer::new
PendingContainer_new(name, id, handle, start_policy, wait, client) ==
    [client |-> client,
     name |-> to_string(name),
     id |-> to_string(id),
     handle |-> to_string(handle),
     wait |-> Some(wait),
     start_policy |-> start_policy]

NoPending ==
    [client |-> "", name |-> "", id |-> "", handle |-> "", wait |-> None,
     start_policy |-> ""]
NoRunning == [client |-> "", handle |-> "", id |-> "", name |-> "", ip |-> UNSPECIFIED]

\* A slip in the conversion: the name and the identifier change places.
RunningFromPending_Swapped(container) ==
    [client |-> container.client,
     handle |-> container.handle,
     id |-> container.name,
     name |-> container.id,
     ip |-> UNSPECIFIED]

\* impl From<PendingContainer> for RunningContainer
RunningFromPending(container) ==
    [client |-> container.client,
     handle |-> container.handle,
     id |-> container.id,
     name |-> container.name,
     ip |-> UNSPECIFIED]

\* impl From<PendingContainer> for CleanupContainer
CleanupFromPending(container) == [id |-> container.id]

\* A slip in the conversion: the name is captured, not the identifier.
CleanupFromPendingRef_Name(container) == [id |-> container.name]

\* impl From<&PendingContainer> for CleanupContainer
CleanupFromPendingRef(container) == [id |-> container.id]

\* A slip in the conversion: the name is captured, not the identifier.
CleanupFromRunning_Name(container) == [id |-> container.name]

\* impl From<RunningContainer> for CleanupContainer
CleanupFromRunning(container) == [id |-> container.id]

\* RunningContainer::name, id
RunningContainer_name(r) == r.name
RunningContainer_id(r) == r.id

\* A slip in the accessor: the address is looked up again, and a container
\* that has exited has none.
RunningContainer_ip_Refreshed(r) ==
    IF \E c \in Containers : r.id = IdOf(c) /\ dstate[c] = "exited"
    THEN UNSPECIFIED ELSE r.ip

\* RunningContainer::ip
RunningContainer_ip(r) == r.ip

\* Result<RunningContainer, DockerTestError>
Ok(r) == [ok |-> TRUE, running |-> r, err |-> NoTestError]
Err(e) == [ok |-> FALSE, running |-> NoRunning, err |-> e]

(***************************************************************************)
(* PendingContainer::start, piece by piece.                                *)
(***************************************************************************)
\* self.client.start_container(&self.name, None::<StartContainerOptions<String>>)
StartRequest_ById(self) == [op |-> "start", target |-> self.id, options |-> "None"]
StartRequest(self) == [op |-> "start", target |-> self.name, options |-> "None"]

Returned(e) == [panic |-> FALSE, err |-> e]
Panicked == [panic |-> TRUE, err |-> NoTestError]

\* The closure given to map_err.  Option::unwrap panics on None.  The
\* backquotes around the cause are written as apostrophes.
\* A slip in the Startup arm: the cause is left out of the text.
StartupFromJson_NoCause(json) == Returned(Startup(<<"failed to start container">>))

\* Ok(json) => DockerTestError::Startup(format!(.., json["message"].as_str().unwrap()))
StartupFromJson(json) ==
    LET message == AsStr(JsonIndex(json, "message")) IN
    IF message.some
    THEN Returned(Startup(<<"failed to start container due to '", message.s, "'">>))
    ELSE Panicked

\* A slip in the decode arm: the decode failure is reported as a Startup error.
DecodeFailure_AsStartup(e) ==
    Returned(Startup(<<"failed to start container due to '", e, "'">>))

\* Err(e) => DockerTestError::Daemon(format!("daemon json response decode failure: {}", e))
DecodeFailure(e) == Returned(Daemon(<<"daemon json response decode failure: ", e>>))

\* A slip in the catch-all arm: every failure that carries a JSON payload is
\* classified as a not-found failure is.
OtherFailure_Classified(e) ==
    LET json == FromStr(e.message) IN
    IF json.ok THEN StartupFromJson(json.val)
    ELSE Returned(Daemon(<<"failed to start container: ">> \o Display(e)))

\* _ => DockerTestError::Daemon(format!("failed to start container: {}", e))
OtherFailure(e) == Returned(Daemon(<<"failed to start container: ">> \o Display(e)))

MapErr(e) ==
    IF e.kind = "DockerResponseNotFoundError"
    THEN LET json == FromStr(e.message) IN
         IF json.ok THEN StartupFromJson(json.val) ELSE DecodeFailure(json.err)
    ELSE OtherFailure(e)

\* Slips in the propagation: the failure is dropped (as by .ok()), or only a
\* not-found failure leaves start.
EarlyReturn_Never(reply) == FALSE
EarlyReturn_OnlyNotFound(reply) ==
    ~reply.ok /\ reply.err.kind = "DockerResponseNotFoundError"

\* The ? after map_err: an Err leaves start at once, an Ok goes on.
EarlyReturn(reply) == ~reply.ok

\* Slips on the failure path: the start command is sent again, or the
\* container is removed.
FailureCommands_Retry(self) == <<[op |-> "start", target |-> self.name, options |-> "None"]>>
FailureCommands_Remove(self) == <<[op |-> "remove", target |-> self.id, options |-> "None"]>>

\* The daemon commands start issues once the start command has failed: the
\* closure builds the error and ? returns it, nothing else.
FailureCommands(self) == <<>>

\* A slip in the scheduling: start runs detached from the task that called
\* it, so dropping that task does not stop it.
StillPolled_Detached(state, awaiting) == state \in {awaiting, "cancelled"}

\* An .await: the future of start goes on from it only while it is polled,
\* and a dropped future is never polled again.
StillPolled(state, awaiting) == state = awaiting

\* A slip in the extraction: the strategy is copied and the slot stays filled.
TakeWait_Clone(self) ==
    [panic |-> ~self.wait.some, waitfor |-> self.wait.strat, self |-> self]

\* self.wait.take().unwrap(): the strategy moved out, the slot left empty.
TakeWait(self) ==
    [panic |-> ~self.wait.some,
     waitfor |-> self.wait.strat,
     self |-> [self EXCEPT !.wait = None]]

\* WaitFor::wait_for_ready: whether the strategy's future suspends before it
\* resolves, and the values it may resolve to.
Suspends(strategy) == strategy # "TestWaitFor"

TestWaitFor_wait_for_ready(container) == Ok(RunningFromPending(container))

WaitForReady(strategy, container) ==
    IF strategy = "TestWaitFor"
    THEN {TestWaitFor_wait_for_ready(container)}
    ELSE {Ok([RunningFromPending(container) EXCEPT !.ip = QueriedIp]),
          Err(Processing(<<"container ", container.name, " did not become ready">>))}

\* A slip in the return: the strategy's failure is wrapped in a Daemon error.
StartReturn_Wrapped(res) ==
    IF res.ok THEN res ELSE Err(Daemon(<<"readiness wait failed: ">> \o res.err.text))

\* let res = waitfor.wait_for_ready(self); res.await
StartReturn(res) == res

vars == <<pc, pend, chan, dstate, dlog, waitfor, invoked, waitRet, supplied, args, results,
          cleanup, hist, seen>>

Idle == [st |-> "idle", req |-> StartRequest(NoPending), reply |-> StartOk]
NoArgs == [name |-> "", id |-> "", handle |-> "", start_policy |-> "", wait |-> "",
           client |-> ""]

Init ==
    /\ pc = [c \in Containers |-> "none"]
    /\ pend = [c \in Containers |-> NoPending]
    /\ chan = [c \in Containers |-> Idle]
    /\ dstate = [c \in Containers |-> "none"]
    /\ dlog = [c \in Containers |-> <<>>]
    /\ waitfor = [c \in Containers |-> None]
    /\ invoked = [c \in Containers |-> 0]
    /\ waitRet = [c \in Containers |-> <<>>]
    /\ supplied = [c \in Containers |-> ""]
    /\ args = [c \in Containers |-> NoArgs]
    /\ results = [c \in Containers |-> <<>>]
    /\ cleanup = [c \in Containers |-> <<>>]
    /\ hist = [c \in Containers |-> <<>>]
    /\ seen = [c \in Containers |-> <<>>]

\* The composition creates the container on the daemon and builds its
\* Pending Container.
CreateWith(c, name, id, handle, start_policy, wait) ==
    /\ pc[c] = "none"
    /\ pend' = [pend EXCEPT ![c] =
                 PendingContainer_new(name, id, handle, start_policy, wait, Client)]
    /\ supplied' = [supplied EXCEPT ![c] = wait]
    /\ args' = [args EXCEPT ![c] =
                 [name |-> name, id |-> id, handle |-> handle,
                  start_policy |-> start_policy, wait |-> wait, client |-> Client]]
    /\ pc' = [pc EXCEPT ![c] = "created"]
    /\ dstate' = [dstate EXCEPT ![c] = "created"]
    /\ UNCHANGED <<chan, dlog, waitfor, invoked, waitRet, results, cleanup,
                   hist, seen>>

Create(c) ==
    \E wait \in Strategies :
        CreateWith(c, NameOf(c), IdOf(c), HandleOf(c), PolicyOf(c), wait)

\* new with any arguments.
CreateAny(c) ==
    \E name \in NameInputs, id \in IdInputs, handle \in HandleInputs,
       start_policy \in StartPolicies, wait \in Strategies :
        CreateWith(c, name, id, handle, start_policy, wait)

\* start is called and polled for the first time: the start command is sent.
StartCall(c) ==
    /\ pc[c] = "created"
    /\ pc' = [pc EXCEPT ![c] = "start_await"]
    /\ chan' = [chan EXCEPT ![c] = [st |-> "request", req |-> StartRequest(pend[c]),
                                    reply |-> StartOk]]
    /\ dlog' = [dlog EXCEPT ![c] = Append(@, StartRequest(pend[c]))]
    /\ hist' = [hist EXCEPT ![c] = Append(@, "start_sent")]
    /\ UNCHANGED <<pend, dstate, waitfor, invoked, waitRet, supplied, args, results, cleanup,
                   seen>>

\* The containers a command's target names: the daemon takes a name or an id.
Resolve(target) == {d \in Containers : dstate[d] # "none" /\ target \in {NameOf(d), IdOf(d)}}

\* The daemon's answers to a start command.
DaemonOutcomes(req) ==
    LET live == {d \in Resolve(req.target) : dstate[d] # "absent"} IN
    (IF live # {} THEN {StartOk} ELSE {StartFailed(NotFoundError(p)) : p \in NotFoundPayloads(req.target)})
    \cup {StartFailed(e) : e \in OtherErrors(req.target)}

\* The daemon handles the start command and answers it.
DaemonStart(c) ==
    /\ chan[c].st = "request"
    /\ \E out \in DaemonOutcomes(chan[c].req) :
         /\ chan' = [chan EXCEPT ![c] = [@ EXCEPT !.st = "reply", !.reply = out]]
         /\ dstate' = [d \in Containers |->
                         IF out.ok /\ d \in Resolve(chan[c].req.target) /\ dstate[d] = "created"
                         THEN "running" ELSE dstate[d]]
    /\ UNCHANGED <<pc, pend, dlog, waitfor, invoked, waitRet, supplied, args, results, cleanup,
                   hist, seen>>

\* Something outside the core removes the container between its creation
\* and the handling of its start command.
Vanish(c) ==
    /\ dstate[c] = "created"
    /\ dstate' = [dstate EXCEPT ![c] = "absent"]
    /\ UNCHANGED <<pc, pend, chan, dlog, waitfor, invoked, waitRet, supplied, args, results, cleanup,
                   hist, seen>>

\* The daemon's reply wakes start: the failure is classified and returned,
\* or the strategy is taken and its wait invoked.  A strategy that does not
\* suspend resolves within the same poll.
StartResume(c) ==
    /\ StillPolled(pc[c], "start_await")
    /\ chan[c].st = "reply"
    /\ chan' = [chan EXCEPT ![c].st = "taken"]
    /\ LET completed == IF chan[c].reply.ok THEN "start_acked" ELSE "start_failed" IN
       IF EarlyReturn(chan[c].reply)
       THEN LET mapped == MapErr(chan[c].reply.err) IN
            /\ pc' = [pc EXCEPT ![c] = IF mapped.panic THEN "panicked" ELSE "done"]
            /\ results' = [results EXCEPT ![c] =
                             IF mapped.panic THEN @ ELSE Append(@, Err(mapped.err))]
            /\ dlog' = [dlog EXCEPT ![c] = @ \o FailureCommands(pend[c])]
            /\ hist' = [hist EXCEPT ![c] = Append(@, completed)]
            /\ UNCHANGED <<pend, waitfor, invoked, waitRet>>
       ELSE LET taken == TakeWait(pend[c]) IN
            IF taken.panic
            THEN /\ pc' = [pc EXCEPT ![c] = "panicked"]
                 /\ hist' = [hist EXCEPT ![c] = Append(@, completed)]
                 /\ UNCHANGED <<pend, dlog, waitfor, invoked, waitRet, results>>
            ELSE /\ pend' = [pend EXCEPT ![c] = taken.self]
                 /\ waitfor' = [waitfor EXCEPT ![c] = Some(taken.waitfor)]
                 /\ invoked' = [invoked EXCEPT ![c] = @ + 1]
                 /\ UNCHANGED dlog
                 /\ IF Suspends(taken.waitfor)
                    THEN /\ pc' = [pc EXCEPT ![c] = "wait_await"]
                         /\ hist' = [hist EXCEPT ![c] = @ \o <<completed, "wait_invoked">>]
                         /\ UNCHANGED <<waitRet, results>>
                    ELSE \E res \in WaitForReady(taken.waitfor, taken.self) :
                         /\ pc' = [pc EXCEPT ![c] = "done"]
                         /\ hist' = [hist EXCEPT ![c] =
                                       @ \o <<completed, "wait_invoked", "wait_returned">>]
                         /\ waitRet' = [waitRet EXCEPT ![c] = Append(@, res)]
                         /\ results' = [results EXCEPT ![c] = Append(@, StartReturn(res))]
    /\ UNCHANGED <<dstate, supplied, args, cleanup, seen>>

\* The suspended strategy resolves and start returns what it resolved to.
WaitReturn(c) ==
    /\ StillPolled(pc[c], "wait_await")
    /\ \E res \in WaitForReady(waitfor[c].strat, pend[c]) :
         /\ waitRet' = [waitRet EXCEPT ![c] = Append(@, res)]
         /\ results' = [results EXCEPT ![c] = Append(@, StartReturn(res))]
    /\ pc' = [pc EXCEPT ![c] = "done"]
    /\ hist' = [hist EXCEPT ![c] = Append(@, "wait_returned")]
    /\ UNCHANGED <<pend, chan, dstate, dlog, waitfor, invoked, supplied, args, cleanup, seen>>

\* The task running start is dropped at one of its two suspension points.
Cancel(c) ==
    /\ pc[c] \in {"start_await", "wait_await"}
    /\ pc' = [pc EXCEPT ![c] = "cancelled"]
    /\ UNCHANGED <<pend, chan, dstate, dlog, waitfor, invoked, waitRet, supplied, args, results, cleanup,
                   hist, seen>>

Derived(rec, from) == [rec |-> rec, from |-> from]

\* A Cleanup Container is derived by reference: from the Pending Container
\* before start, or from the one the strategy holds during its wait.
CleanupByRef(c) ==
    /\ pc[c] \in {"created", "wait_await"}
    /\ Len(cleanup[c]) < MaxCleanups
    /\ cleanup' = [cleanup EXCEPT ![c] =
                     Append(@, Derived(CleanupFromPendingRef(pend[c]), pc[c]))]
    /\ UNCHANGED <<pc, pend, chan, dstate, dlog, waitfor, invoked, waitRet, supplied, args, results,
                   hist, seen>>

\* A Pending Container that will not be started is turned into its Cleanup
\* Container, which consumes it.
CleanupByValue(c) ==
    /\ pc[c] = "created"
    /\ Len(cleanup[c]) < MaxCleanups
    /\ cleanup' = [cleanup EXCEPT ![c] =
                     Append(@, Derived(CleanupFromPending(pend[c]), "consumed"))]
    /\ pc' = [pc EXCEPT ![c] = "consumed"]
    /\ UNCHANGED <<pend, chan, dstate, dlog, waitfor, invoked, waitRet, supplied, args, results,
                   hist, seen>>

\* The Running Container start returned (a clone of it) is turned into its
\* Cleanup Container.
CleanupRunning(c) ==
    /\ pc[c] = "done"
    /\ results[c][1].ok
    /\ Len(cleanup[c]) < MaxCleanups
    /\ cleanup' = [cleanup EXCEPT ![c] =
                     Append(@, Derived(CleanupFromRunning(results[c][1].running), "running"))]
    /\ UNCHANGED <<pc, pend, chan, dstate, dlog, waitfor, invoked, waitRet, supplied, args, results,
                   hist, seen>>

\* The container stops running on the daemon.
Exit(c) ==
    /\ dstate[c] = "running"
    /\ dstate' = [dstate EXCEPT ![c] = "exited"]
    /\ UNCHANGED <<pc, pend, chan, dlog, waitfor, invoked, waitRet, supplied, args, results,
                   cleanup, hist, seen>>

\* The test body calls name(), id() and ip() on the Running Container it
\* holds; beside what they return, the daemon's state at that moment is kept.
ReadRunning(c) ==
    /\ pc[c] = "done"
    /\ results[c][1].ok
    /\ seen' = [seen EXCEPT ![c] =
                 <<[name |-> RunningContainer_name(results[c][1].running),
                    id |-> RunningContainer_id(results[c][1].running),
                    ip |-> RunningContainer_ip(results[c][1].running),
                    daemon |-> dstate[c]]>>]
    /\ UNCHANGED <<pc, pend, chan, dstate, dlog, waitfor, invoked, waitRet, supplied, args,
                   results, cleanup, hist>>

Next ==
    \E c \in Containers :
        \/ Create(c)
        \/ StartCall(c)
        \/ DaemonStart(c)
        \/ Vanish(c)
        \/ StartResume(c)
        \/ WaitReturn(c)
        \/ Cancel(c)
        \/ CleanupByRef(c)
        \/ CleanupByValue(c)
        \/ CleanupRunning(c)
        \/ Exit(c)
        \/ ReadRunning(c)

Spec == Init /\ [][Next]_vars

\* The holder of a Pending Container whose strategy start has taken (the
\* strategy, during its wait) calls start on it: the start command is sent
\* as for any Pending Container, and the empty slot is met only at the
\* unwrap that follows a successful reply.
StartAgain(c) ==
    /\ pc[c] = "wait_await"
    /\ ~pend[c].wait.some
    /\ pc' = [pc EXCEPT ![c] = "start_await"]
    /\ chan' = [chan EXCEPT ![c] = [st |-> "request", req |-> StartRequest(pend[c]),
                                    reply |-> StartOk]]
    /\ dlog' = [dlog EXCEPT ![c] = Append(@, StartRequest(pend[c]))]
    /\ hist' = [hist EXCEPT ![c] = Append(@, "start_sent")]
    /\ UNCHANGED <<pend, dstate, waitfor, invoked, waitRet, supplied, args, results, cleanup,
                   seen>>

NextRestart == Next \/ \E c \in Containers : StartAgain(c)
SpecRestart == Init /\ [][NextRestart]_vars

\* The daemon eventually answers a start command, the task that is still
\* polled is eventually woken by the reply, and the strategy's wait
\* eventually returns.
SpecFair ==
    /\ Spec
    /\ \A c \in Containers :
          WF_vars(DaemonStart(c)) /\ WF_vars(StartResume(c)) /\ WF_vars(WaitReturn(c))

\* Construction alone, over all the arguments.
NextNew == \E c \in Containers : CreateAny(c)
SpecNew == Init /\ [][NextNew]_vars

(***************************************************************************)
(* Properties.                                                             *)
(***************************************************************************)
\* start has taken the daemon's reply to its start command.
ReplyTaken(c) == chan[c].st = "taken"
StartCommandSucceeded(c) == ReplyTaken(c) /\ chan[c].reply.ok
StartCommandFailed(c) == ReplyTaken(c) /\ ~chan[c].reply.ok
Contains(text, piece) == \E i \in 1..Len(text) : text[i] = piece
\* The cause a daemon puts in the message field of its not-found payload.
CauseOf(c) == "No such container: " \o NameOf(c)

\* C1: once start has taken the reply to its start command, the strategy has
\* been invoked exactly once if the command succeeded and never if it failed;
\* before that it has not been invoked at all.
C1_StrategyInvokedOncePerSuccessfulStart ==
    \A c \in Containers :
        invoked[c] = IF StartCommandSucceeded(c) THEN 1 ELSE 0

C1_Witness ==
    \E c, d \in Containers :
        /\ StartCommandSucceeded(c) /\ invoked[c] = 1
        /\ StartCommandFailed(d) /\ invoked[d] = 0 /\ pc[d] = "done"

\* C2: every failure of the daemon start command that start has taken is
\* returned to the caller as one error value of kind Startup or Daemon.
C2_EveryStartFailureIsReturnedAsTypedError ==
    \A c \in Containers :
        StartCommandFailed(c) =>
            /\ Len(results[c]) = 1
            /\ ~results[c][1].ok
            /\ results[c][1].err.kind \in {"Startup", "Daemon"}

\* C3: a not-found failure whose payload is JSON with the message field M
\* makes start return a Startup error whose text contains M, and no Running
\* Container.
C3_NotFoundWithMessageIsStartupError ==
    \A c \in Containers :
        (/\ StartCommandFailed(c)
         /\ chan[c].reply.err.kind = "DockerResponseNotFoundError"
         /\ chan[c].reply.err.message \in
                {PayloadMessage(NameOf(c)), PayloadCodeAndMessage(NameOf(c))})
        => /\ Len(results[c]) = 1
           /\ ~results[c][1].ok
           /\ results[c][1].running = NoRunning
           /\ results[c][1].err.kind = "Startup"
           /\ Contains(results[c][1].err.text, CauseOf(c))

C3_Witness ==
    \E c, d \in Containers :
        /\ StartCommandFailed(c) /\ chan[c].reply.err.message = PayloadMessage(NameOf(c))
        /\ chan[c].reply.err.kind = "DockerResponseNotFoundError"
        /\ StartCommandFailed(d)
        /\ chan[d].reply.err.message = PayloadCodeAndMessage(NameOf(d))
        /\ chan[d].reply.err.kind = "DockerResponseNotFoundError"
        /\ results[c] = <<Err(Startup(<<"failed to start container due to '", CauseOf(c), "'">>))>>
        /\ Len(results[d]) = 1

\* C4: a not-found failure whose payload is not JSON makes start return a
\* Daemon error that describes a decode failure, never a Startup error, and
\* no Running Container.
C4_NotFoundUnparseableIsDaemonDecodeError ==
    \A c \in Containers :
        (/\ StartCommandFailed(c)
         /\ chan[c].reply.err.kind = "DockerResponseNotFoundError"
         /\ chan[c].reply.err.message \in {PayloadNotJson, PayloadTruncated})
        => /\ Len(results[c]) = 1
           /\ ~results[c][1].ok
           /\ results[c][1].running = NoRunning
           /\ results[c][1].err.kind = "Daemon"
           /\ Len(results[c][1].err.text) = 2
           /\ results[c][1].err.text[1] = "daemon json response decode failure: "
           /\ results[c][1].err.text[2] \in {"expected ident", "EOF while parsing an object"}

C4_Witness ==
    \E c, d \in Containers :
        /\ StartCommandFailed(c) /\ chan[c].reply.err.message = PayloadNotJson
        /\ StartCommandFailed(d) /\ chan[d].reply.err.message = PayloadTruncated
        /\ results[c] = <<Err(Daemon(<<"daemon json response decode failure: ",
                                       "expected ident">>))>>
        /\ Len(results[d]) = 1

\* C5: a failure other than not-found makes start return a Daemon error whose
\* text is the fixed prefix followed by the daemon error's own message,
\* whatever payload the failure carries.
C5_OtherFailureIsDaemonError ==
    \A c \in Containers :
        (StartCommandFailed(c) /\ chan[c].reply.err.kind # "DockerResponseNotFoundError")
        => /\ Len(results[c]) = 1
           /\ ~results[c][1].ok
           /\ results[c][1].err.kind = "Daemon"
           /\ results[c][1].err.text =
                  <<"failed to start container: ">> \o Display(chan[c].reply.err)

C5_Witness ==
    \E c, d \in Containers :
        /\ StartCommandFailed(c)
        /\ chan[c].reply.err = ServerError("500", PayloadMessage(NameOf(c)))
        /\ results[c] = <<Err(Daemon(<<"failed to start container: ",
                                       "Docker responded with status code ", "500", ": ",
                                       "{", "\"message\"", ":",
                                       "\"No such container: web\"", "}">>))>>
        /\ StartCommandFailed(d) /\ chan[d].reply.err = IOError
        /\ Len(results[d]) = 1

\* C6: when the start command succeeded, what start returns is what the
\* strategy's wait resolved to, a Running Container or an error, unchanged.
C6_StartReturnsStrategyResultUnchanged ==
    \A c \in Containers :
        /\ StartCommandSucceeded(c) => results[c] = waitRet[c]
        /\ waitRet[c] # <<>> => StartCommandSucceeded(c) /\ Len(results[c]) = 1

C6_Witness ==
    \E c, d \in Containers :
        /\ StartCommandSucceeded(c) /\ Len(waitRet[c]) = 1 /\ waitRet[c][1].ok
        /\ results[c] = waitRet[c]
        /\ StartCommandSucceeded(d) /\ Len(waitRet[d]) = 1 /\ ~waitRet[d][1].ok
        /\ waitRet[d][1].err.kind = "Processing"
        /\ results[d] = waitRet[d]

\* C7: a Running Container has been handed to the caller of start only if the
\* start command succeeded and the strategy resolved to success; a failed
\* command, a failed strategy, a panic and a cancellation hand over nothing.
C7_RunningOnlyAfterStartAndStrategySucceed ==
    \A c \in Containers :
        /\ Len(results[c]) <= 1
        /\ (results[c] # <<>> /\ results[c][1].ok) =>
              /\ StartCommandSucceeded(c)
              /\ dstate[c] \in {"running", "exited"}
              /\ invoked[c] = 1
              /\ Len(waitRet[c]) = 1 /\ waitRet[c][1].ok
              /\ pc[c] = "done"
        /\ results[c] # <<>> /\ ~results[c][1].ok => results[c][1].running = NoRunning
        /\ pc[c] \in {"cancelled", "panicked", "consumed"} => results[c] = <<>>

C7_Witness ==
    \E c, d \in Containers :
        /\ results[c] # <<>> /\ results[c][1].ok /\ results[c][1].running.id = IdOf(c)
        /\ pc[d] = "cancelled" /\ dstate[d] = "running" /\ invoked[d] = 1
        /\ results[d] = <<>>

\* C8: when the start command succeeded and the strategy is the one that
\* returns the bare conversion, start returns a Running Container with the
\* Pending Container's name, identifier, handle and client and the unspecified
\* address, and the only daemon command issued is the start command.
C8_NoWaitYieldsMatchingRunningContainer ==
    \A c \in Containers :
        (StartCommandSucceeded(c) /\ supplied[c] = "TestWaitFor")
        => /\ Len(results[c]) = 1
           /\ results[c][1].ok
           /\ RunningContainer_name(results[c][1].running) = NameOf(c)
           /\ RunningContainer_id(results[c][1].running) = IdOf(c)
           /\ results[c][1].running.handle = HandleOf(c)
           /\ results[c][1].running.client = Client
           /\ RunningContainer_ip(results[c][1].running) = UNSPECIFIED
           /\ results[c][1].running.name = pend[c].name
           /\ results[c][1].running.id = pend[c].id
           /\ results[c][1].running.handle = pend[c].handle
           /\ dlog[c] = <<[op |-> "start", target |-> NameOf(c), options |-> "None"]>>

C8_Witness ==
    \E c \in Containers :
        /\ StartCommandSucceeded(c) /\ supplied[c] = "TestWaitFor"
        /\ results[c] = <<Ok([client |-> Client, handle |-> HandleOf(c), id |-> IdOf(c),
                              name |-> NameOf(c), ip |-> <<0, 0, 0, 0>>])>>

\* C9: a Cleanup Container derived by reference from the Pending Container
\* before start holds the identifier the container was created with, in every
\* later state: while start runs and after it succeeded, failed at the daemon,
\* failed in the strategy, panicked or was cancelled.
C9_CleanupByRefKeepsIdentifier ==
    \A c \in Containers :
        \A i \in 1..Len(cleanup[c]) :
            cleanup[c][i].from = "created" => cleanup[c][i].rec = [id |-> IdOf(c)]

C9_Witness ==
    \E c, d \in Containers :
        /\ cleanup[c] # <<>> /\ cleanup[c][1] = Derived([id |-> IdOf(c)], "created")
        /\ pc[c] = "done" /\ results[c][1].ok
        /\ cleanup[d] # <<>> /\ cleanup[d][1] = Derived([id |-> IdOf(d)], "created")
        /\ pc[d] = "done" /\ ~results[d][1].ok

\* C10: at every point of the lifecycle the current object converts to a
\* Cleanup Container whose identifier is the object's identifier and the one
\* supplied at construction: the Pending Container before start (by reference
\* and by value), the one the strategy holds, and the Running Container; and
\* every Cleanup Container that was derived holds that identifier.
C10_CleanupIdentifierAtEveryPoint ==
    \A c \in Containers :
        /\ pc[c] \in {"created", "start_await", "wait_await"} =>
              /\ pend[c].id = IdOf(c)
              /\ CleanupFromPendingRef(pend[c]).id = pend[c].id
              /\ CleanupFromPending(pend[c]).id = pend[c].id
        /\ (results[c] # <<>> /\ results[c][1].ok) =>
              /\ results[c][1].running.id = IdOf(c)
              /\ CleanupFromRunning(results[c][1].running).id = results[c][1].running.id
        /\ \A i \in 1..Len(cleanup[c]) : cleanup[c][i].rec.id = IdOf(c)

C10_Witness ==
    \E c, d \in Containers :
        /\ cleanup[c] = <<Derived([id |-> IdOf(c)], "running")>>
        /\ cleanup[d] = <<Derived([id |-> IdOf(d)], "wait_await")>>
        /\ pc[d] = "done"

\* C11: a Pending Container that new returned holds exactly the name, the
\* identifier, the handle, the start policy, the client and the strategy it
\* was given, whatever they are.
C11_NewKeepsItsArguments ==
    \A c \in Containers :
        pc[c] = "created" =>
            /\ pend[c].name = args[c].name
            /\ pend[c].id = args[c].id
            /\ pend[c].handle = args[c].handle
            /\ pend[c].start_policy = args[c].start_policy
            /\ pend[c].client = args[c].client
            /\ pend[c].wait = [some |-> TRUE, strat |-> args[c].wait]

C11_Witness ==
    \E c, d \in Containers :
        /\ pc[c] = "created" /\ args[c].name = " Web_01 " /\ args[c].id = "ID_1F"
        /\ args[c].handle = "" /\ pend[c].name = " Web_01 " /\ pend[c].id = "ID_1F"
        /\ pc[d] = "created" /\ args[d].name = "web" /\ args[d].wait = "RunningWait"
        /\ args[d].start_policy = "Strict" /\ pend[d].handle = "h_web"

\* C12: the Running Container the caller holds is the one the strategy
\* constructed, and every call of name(), id() and ip() returns the name, the
\* identifier and the address captured at that construction, also after the
\* container has exited on the daemon.
C12_RunningContainerIsNeverRefreshed ==
    \A c \in Containers :
        /\ Len(waitRet[c]) <= 1
        /\ (results[c] # <<>> /\ results[c][1].ok) =>
              /\ waitRet[c] # <<>>
              /\ results[c][1].running = waitRet[c][1].running
        /\ seen[c] # <<>> =>
              /\ waitRet[c] # <<>> /\ waitRet[c][1].ok
              /\ seen[c][1].ip = waitRet[c][1].running.ip
              /\ seen[c][1].name = waitRet[c][1].running.name
              /\ seen[c][1].id = waitRet[c][1].running.id

C12_Witness ==
    \E c, d \in Containers :
        /\ seen[c] = <<[name |-> NameOf(c), id |-> IdOf(c), ip |-> QueriedIp,
                        daemon |-> "exited"]>>
        /\ dstate[c] = "exited"
        /\ seen[d] = <<[name |-> NameOf(d), id |-> IdOf(d), ip |-> UNSPECIFIED,
                        daemon |-> "running"]>>

\* C13: in the events of one container's start, the invocation of the wait
\* comes directly after the acknowledgement of the start command, which comes
\* after the command was sent; the wait is not invoked while the command is
\* outstanding, nor in a start whose command failed.
C13_WaitBeginsOnlyAfterStartAcknowledged ==
    \A c \in Containers :
        /\ \A i \in 1..Len(hist[c]) :
              hist[c][i] = "wait_invoked" =>
                  /\ i >= 3
                  /\ hist[c][i - 1] = "start_acked"
                  /\ \E j \in 1..(i - 2) : hist[c][j] = "start_sent"
                  /\ \A j \in 1..Len(hist[c]) : hist[c][j] # "start_failed"
        /\ chan[c].st \in {"request", "reply"} =>
              \A i \in 1..Len(hist[c]) : hist[c][i] # "wait_invoked"
        /\ invoked[c] = Cardinality({i \in 1..Len(hist[c]) : hist[c][i] = "wait_invoked"})

C13_Witness ==
    \E c, d \in Containers :
        /\ hist[c] = <<"start_sent", "start_acked", "wait_invoked">>
        /\ pc[c] = "wait_await"
        /\ hist[d] = <<"start_sent", "start_failed">>
        /\ pc[d] = "done" /\ invoked[d] = 0

\* C14: the strategy slot of a Pending Container holds the strategy given to
\* new until start has taken a successful reply to its start command; from
\* then on the slot is empty and the strategy is start's own, so the Pending
\* Container handed to the wait has an empty slot; a failed start command
\* leaves the strategy in the slot.
C14_StrategySlotEmptiedExactlyAtSuccessfulStart ==
    \A c \in Containers :
        /\ pc[c] # "none" =>
              pend[c].wait = IF StartCommandSucceeded(c)
                             THEN [some |-> FALSE, strat |-> ""]
                             ELSE [some |-> TRUE, strat |-> supplied[c]]
        /\ waitfor[c] = IF StartCommandSucceeded(c)
                        THEN [some |-> TRUE, strat |-> supplied[c]]
                        ELSE [some |-> FALSE, strat |-> ""]
        /\ pc[c] = "wait_await" => ~pend[c].wait.some

C14_Witness ==
    \E c, d \in Containers :
        /\ pc[c] = "wait_await" /\ ~pend[c].wait.some
        /\ waitfor[c] = [some |-> TRUE, strat |-> "RunningWait"]
        /\ StartCommandFailed(d) /\ pend[d].wait = [some |-> TRUE, strat |-> supplied[d]]
        /\ ~waitfor[d].some

\* C15: no start command is outstanding at the daemon on behalf of a Pending
\* Container whose strategy slot is empty: a start of such a Pending Container
\* is turned down before anything is sent.
C15_EmptiedPendingContainerIsNeverStarted ==
    \A c \in Containers :
        chan[c].st \in {"request", "reply"} => pend[c].wait.some

\* C16: each call of start issues the daemon start command exactly once, by
\* the container's name and with no options; the command is the first thing
\* start does, and it is not issued again after a failure.
C16_StartCommandIssuedOnceByNameFirst ==
    \A c \in Containers :
        /\ pc[c] \in {"none", "created", "consumed"} => dlog[c] = <<>> /\ hist[c] = <<>>
        /\ pc[c] \notin {"none", "created", "consumed"} =>
              /\ dlog[c] = <<[op |-> "start", target |-> NameOf(c), options |-> "None"]>>
              /\ hist[c] # <<>> /\ hist[c][1] = "start_sent"
              /\ \A i \in 2..Len(hist[c]) : hist[c][i] # "start_sent"

C16_Witness ==
    \E c \in Containers :
        /\ pc[c] = "done" /\ StartCommandFailed(c)
        /\ Len(results[c]) = 1 /\ ~results[c][1].ok
        /\ Len(dlog[c]) = 1 /\ dlog[c][1].target = "web" /\ pend[c].id = "id_1f"

OnDaemon(c) == dstate[c] \in {"created", "running", "exited"}
StartFailedAt(c) == Len(results[c]) = 1 /\ ~results[c][1].ok

\* C17: the core never removes a container from the daemon: every command
\* it has issued is "start", a step that takes a container off the daemon is
\* no step of the core, and once start has failed a Cleanup Container derived
\* before start still carries the container's identifier.
C17_CoreNeverRemovesAContainer ==
    /\ [](\A c \in Containers :
            /\ \A i \in 1..Len(dlog[c]) : dlog[c][i].op = "start"
            /\ StartFailedAt(c) =>
                  \A k \in 1..Len(cleanup[c]) :
                      cleanup[c][k].from = "created" => cleanup[c][k].rec.id = IdOf(c))
    /\ [][\A c \in Containers :
            OnDaemon(c) /\ ~OnDaemon(c)' => UNCHANGED <<pc, chan, dlog, results>>]_vars

C17_Witness ==
    \E c, d \in Containers :
        /\ StartFailedAt(c) /\ StartCommandFailed(c) /\ dstate[c] = "created"
        /\ dlog[c] = <<StartRequest(pend[c])>>
        /\ cleanup[c] # <<>> /\ cleanup[c][1].from = "created"
        /\ cleanup[c][1].rec.id = "id_1f"
        /\ StartFailedAt(d) /\ StartCommandSucceeded(d) /\ dstate[d] = "running"

\* C18: once the task running start is cancelled, during the daemon start
\* call or during the strategy's wait, start produces no result for that
\* container and the core issues no further daemon command for it; the
\* Cleanup Container derived before start keeps holding the identifier.
C18_CancelledStartProducesNothingMore ==
    /\ [](\A c \in Containers :
            pc[c] = "cancelled" =>
                /\ results[c] = <<>>
                /\ dlog[c] = <<StartRequest(pend[c])>>
                /\ \A k \in 1..Len(cleanup[c]) : cleanup[c][k].rec.id = IdOf(c))
    /\ [][\A c \in Containers :
            pc[c] = "cancelled" =>
                /\ pc'[c] = "cancelled"
                /\ results'[c] = results[c] /\ dlog'[c] = dlog[c]
                /\ invoked'[c] = invoked[c] /\ waitRet'[c] = waitRet[c]
                /\ cleanup'[c] = cleanup[c] /\ pend'[c] = pend[c]]_vars

C18_Witness ==
    \E c, d \in Containers :
        /\ pc[c] = "cancelled" /\ invoked[c] = 0 /\ dstate[c] = "running"
        /\ cleanup[c] # <<>> /\ cleanup[c][1].from = "created"
        /\ cleanup[c][1].rec.id = "id_1f"
        /\ pc[d] = "cancelled" /\ invoked[d] = 1 /\ waitRet[d] = <<>>

\* C19: with the containers' start sequences interleaved in every way, each
\* container has at most one start command, at most one strategy invocation
\* and at most one result, the strategy holds the Pending Container only
\* once start has given it up, and a step of one container's sequence leaves
\* the other containers' outcome, fields and command alone.
C19_OneStartThenWaitSequencePerContainer ==
    /\ [](\A c \in Containers :
            /\ Len(dlog[c]) <= 1 /\ invoked[c] <= 1 /\ Len(results[c]) <= 1
            /\ \A i \in 1..Len(dlog[c]) : Resolve(dlog[c][i].target) \subseteq {c}
            /\ waitfor[c].some => pc[c] \notin {"created", "start_await", "consumed"}
            /\ Len(results[c]) = 1 /\ results[c][1].ok =>
                  /\ StartCommandSucceeded(c)
                  /\ results[c][1].running.id = IdOf(c)
                  /\ results[c][1].running.name = NameOf(c))
    /\ [][\A c \in Containers :
            pc'[c] # pc[c] =>
                \A d \in Containers \ {c} :
                    /\ pc'[d] = pc[d] /\ results'[d] = results[d]
                    /\ pend'[d] = pend[d] /\ chan'[d] = chan[d]
                    /\ dstate'[d] = dstate[d] /\ dlog'[d] = dlog[d]
                    /\ invoked'[d] = invoked[d]]_vars

C19_Witness ==
    \E c, d \in Containers :
        /\ c # d
        /\ pc[c] = "wait_await" /\ invoked[c] = 1 /\ dstate[c] = "running"
        /\ pc[d] = "done" /\ StartFailedAt(d) /\ StartCommandFailed(d)
        /\ Len(dlog[c]) = 1 /\ Len(dlog[d]) = 1 /\ invoked[d] = 0
        /\ pend[c].id = IdOf(c) /\ pend[d].id = IdOf(d)

\* C20: with the daemon eventually answering and the strategy's wait
\* eventually returning, every call of start that is not cancelled
\* eventually completes with exactly one result, whatever the daemon
\* answered.
C20_EveryStartEventuallyCompletes ==
    \A c \in Containers :
        pc[c] = "start_await" ~> (pc[c] = "cancelled" \/ Len(results[c]) = 1)

====
